---- MODULE Spec2Model ----
(***************************************************************************)
(* A model of discord.ext.duck.errors.ErrorManager: the error store, the   *)
(* lock-protected cooldown scheduler of add_error, the hand-over to        *)
(* release_error, the on_command_error bridge, the formatter and sender    *)
(* release_error with _yield_code_chunks; and of                           *)
(* discord.ext.duck.webserver.WebserverCog.                                *)
(*                                                                         *)
(* The program runs on one asyncio event loop, so an action of the model   *)
(* is the stretch of a coroutine between two suspension points.  Time is   *)
(* counted in whole seconds.                                               *)
(***************************************************************************)
EXTENDS Integers, Sequences, FiniteSets, TLC

\* ------------------------------------------------------------------ bounds
NumTasks == 3        \* entry-point calls made in one behaviour
MaxTime == 6         \* the clock may idle up to here (sleeps may pass it)
MaxLag == 1          \* age of the message that triggered a command, at most
MaxFaults == 1       \* transport failures and cancellations in one behaviour
BridgeMaxTime == 1   \* the clock's idle limit where the entry points are compared
BridgeCalls == 2     \* entry-point calls where the entry points are compared
MaxText == 45000     \* length of the text cut into fragments, at most
TextUnit == 1000     \* the tracebacks released are this long, or a multiple
MaxUnits == 45       \* ... up to this many times
NumPorts == 2        \* ports a web server may be given
MaxStarts == 2       \* calls of BaseWebserver.start in one behaviour

\* ------------------------------------------------------- program constants
Cooldown == 5        \* ErrorManager.__init__: cooldown = timedelta(seconds=5)
ChunkSize == 2000    \* _yield_code_chunks: chunksize = 2000
CodeBlockerLen == 11 \* ErrorManager.__init__: len("```py\n{}```")
EmbedsPerSend == 10  \* release_error: if len(embeds) == 10

Tasks == 1..NumTasks

Max(a, b) == IF a >= b THEN a ELSE b
Min(a, b) == IF a <= b THEN a ELSE b

\* ------------------------------------------------------------- exceptions
\* An exception object: its identity, class, message and the file of the
\* frame that raised it.  original is the id of the wrapped cause of a
\* CommandInvokeError and 0 elsewhere.
BaseErrors ==
    { [id |-> 1, cls |-> "ValueError", msg |-> "boom", file |-> "/cwd/cog.py", original |-> 0],
      [id |-> 2, cls |-> "ValueError", msg |-> "boom", file |-> "/cwd/cog.py", original |-> 0],
      [id |-> 3, cls |-> "KeyError", msg |-> "key", file |-> "/lib/x.py", original |-> 0] }

CommandErrors ==
    { [id |-> 11, cls |-> "NotOwner", msg |-> "not owner", file |-> "/lib/core.py", original |-> 0],
      [id |-> 12, cls |-> "CommandNotFound", msg |-> "not found", file |-> "/lib/bot.py", original |-> 0],
      [id |-> 13, cls |-> "MissingPermissions", msg |-> "missing", file |-> "/lib/core.py", original |-> 0],
      [id |-> 14, cls |-> "CommandInvokeError", msg |-> "invoke", file |-> "/lib/core.py", original |-> 1],
      [id |-> 15, cls |-> "CommandInvokeError", msg |-> "invoke", file |-> "/lib/core.py", original |-> 3] }

\* error.original of a CommandInvokeError
Original(error) == CHOOSE e \in BaseErrors : e.id = error.original

\* The classes an exception class derives from, itself included
\* (discord.ext.commands.errors).
Mro(cls) ==
    CASE cls = "NotOwner" -> {"NotOwner", "CheckFailure", "CommandError"}
      [] cls = "MissingPermissions" -> {"MissingPermissions", "CheckFailure", "CommandError"}
      [] cls = "CommandNotFound" -> {"CommandNotFound", "CommandError"}
      [] cls = "CommandInvokeError" -> {"CommandInvokeError", "CommandError"}
      [] OTHER -> {cls}

\* isinstance(error, classes)
IsInstance(error, classes) == Mro(error.cls) \cap classes # {}

\* str.replace(os.getcwd(), "CWD") on the file of a frame
ReplaceCwd(file) ==
    CASE file = "/cwd/cog.py" -> "CWD/cog.py"
      [] OTHER -> file

\* "".join(traceback.format_exception(...)).replace(os.getcwd(), "CWD"):
\* the rendered frame, then the class and the message of the exception.
TracebackString(error) == <<ReplaceCwd(error.file), error.cls, error.msg>>

\* str(error)
Str(error) == error.msg

\* ----------------------------------------------------------------- contexts
NoCtx ==
    [style |-> "none", author |-> "None", guild |-> "None", channel |-> "None",
     command |-> "None", has_message |-> FALSE, created_at |-> 0]

\* commands.Context objects a command can hand over at time `at`: in a
\* guild or in a private channel, for a message created up to MaxLag ago.
CommandContexts(at) ==
    { [style |-> "context", author |-> "u1", guild |-> g, channel |-> "c1",
       command |-> "cmd1", has_message |-> TRUE, created_at |-> at - lag] :
         g \in {"g1", "None"}, lag \in 0..Min(MaxLag, at) }

\* discord.Interaction objects (a slash command carries no message).
Interactions(at) ==
    { [style |-> "interaction", author |-> "u2", guild |-> g, channel |-> "c2",
       command |-> "cmd2", has_message |-> FALSE, created_at |-> 0] :
         g \in {"g1", "None"} }

Contexts(at) == {NoCtx} \cup CommandContexts(at) \cup Interactions(at)

\* What the scheduler reads of a call is the packet's time and signature:
\* two exceptions, raised by a guild command for a message of any age.
SchedErrors == {e \in BaseErrors : e.id # 2}
SchedContexts(at) == {c \in CommandContexts(at) : c.guild = "g1"}

\* ------------------------------------------------------------------ settings
DefaultIgnored == {"NotOwner", "CommandNotFound"}

\* CommandErrorSettings(hijack=False)
DefaultSettings ==
    [hijack |-> FALSE, ignored_errors |-> DefaultIgnored, check_for_local_error_handlers |-> TRUE]

SettingsChoices ==
    { [hijack |-> TRUE, ignored_errors |-> ig, check_for_local_error_handlers |-> c] :
        ig \in {DefaultIgnored, {"CommandInvokeError"}}, c \in BOOLEAN }

\* --------------------------------------------------------------------- state
VARIABLES
    now,          \* the clock, discord.utils.utcnow()
    oce_settings, \* ErrorManager.oce_settings
    errors,       \* ErrorManager.errors: signature -> list of packets
    most_recent,  \* ErrorManager._most_recent: <<>> (None) or <<time>>
    locked,       \* ErrorManager._lock: asyncio.Lock._locked
    waiters,      \* ErrorManager._lock: asyncio.Lock._waiters, in order
    pc,           \* where each task's call stands
    pkt,          \* add_error's local `packet` of each task
    sig,          \* add_error's local `traceback_string` of each task
    wake,         \* when the asyncio.sleep of each task is due
    calls,        \* history: the add_error calls, with their arguments
    sent,         \* history: the release_error calls
    replies,      \* history: the ctx.send calls
    last,         \* history: the entry-point call made by the last step
    faults,       \* history: transport failures and cancellations so far
    rel_pc,       \* where the release_error call stands
    rel_packet,   \* release_error's argument `packet`
    tb_len,       \* len(traceback), release_error's argument `traceback`
    webhook_partial, \* ErrorManager.error_webhook.is_partial()
    fmt,          \* release_error's local `fmt`: the metadata, key -> value
    warnings,     \* history: the log.warning calls of release_error
    code_chunks,  \* release_error's local `code_chunks`
    entry_i,      \* how many entries of code_chunks the for loop has taken
    posts,        \* history: the webhook.send calls
    cog_class,    \* the WebserverCog subclass: its class keywords and attributes
    cog_pc,       \* where the cog instance stands: constructed, loaded, unloaded
    runner_setup, \* BaseWebserver._runner has been set up
    webserver,    \* BaseWebserver._webserver: None or the TCPSite
    starts        \* history: the calls of BaseWebserver.start

\* The state of a release_error call
relvars == <<rel_pc, rel_packet, tb_len, webhook_partial, fmt, warnings, code_chunks,
             entry_i, posts>>

\* The state of a WebserverCog
cogvars == <<cog_class, cog_pc, runner_setup, webserver, starts>>

vars == <<now, oce_settings, errors, most_recent, locked, waiters, pc, pkt, sig,
          wake, calls, sent, replies, last, faults, relvars, cogvars>>

NoError == [id |-> 0, cls |-> "None", msg |-> "", file |-> "", original |-> 0]

NoPacket ==
    [time |-> 0, exception |-> NoError, author |-> "absent", guild |-> "absent",
     channel |-> "absent", command |-> "absent"]

NoSig == <<>>

NoInput == [entry |-> "none"]

\* The metadata before release_error fills it in
NoFmt == [k \in {} |-> [form |-> "", id |-> ""]]

\* int = MISSING, the default of the class keyword `port`; a port is <<n>>
Missing == <<>>

\* BaseWebserver._webserver before start() has made a TCPSite
NoSite == [made |-> FALSE, host |-> "", port |-> Missing, listening |-> FALSE]

\* No subclass has been declared: the class keywords at their defaults
NoClass == [status |-> "undefined", auto_start |-> TRUE, host |-> "localhost", port |-> Missing]

\* No release_error call is under way; the webhook made by
\* discord.Webhook.from_url is partial.
RelIdle ==
    /\ rel_pc = "idle"
    /\ rel_packet = NoPacket
    /\ tb_len = 0
    /\ webhook_partial = TRUE
    /\ fmt = NoFmt
    /\ warnings = <<>>
    /\ code_chunks = <<>>
    /\ entry_i = 0
    /\ posts = <<>>

\* No WebserverCog subclass has been declared
CogIdle ==
    /\ cog_class = NoClass
    /\ cog_pc = "constructed"
    /\ runner_setup = FALSE
    /\ webserver = NoSite
    /\ starts = <<>>

SchedInit ==
    /\ now = 0
    /\ oce_settings = DefaultSettings
    /\ errors = [s \in {} |-> <<>>]
    /\ most_recent = <<>>
    /\ locked = FALSE
    /\ waiters = <<>>
    /\ pc = [t \in Tasks |-> "idle"]
    /\ pkt = [t \in Tasks |-> NoPacket]
    /\ sig = [t \in Tasks |-> NoSig]
    /\ wake = [t \in Tasks |-> 0]
    /\ calls = <<>>
    /\ sent = <<>>
    /\ replies = <<>>
    /\ last = NoInput
    /\ faults = 0

Init == SchedInit /\ RelIdle /\ CogIdle

\* ------------------------------------------------------- context extractor
\* ctx and ctx.message and ctx.message.created_at or discord.utils.utcnow()
PacketTime(ctx) ==
    IF ctx.style # "none" /\ ctx.has_message THEN ctx.created_at ELSE now

\* The packet add_error builds: time and exception, and for a
\* commands.Context the addons merged by packet.update(addons).  For a
\* discord.Interaction the addons are built and not merged.
BuildPacket(error, ctx) ==
    LET base == [time |-> PacketTime(ctx), exception |-> error, author |-> "absent",
                 guild |-> "absent", channel |-> "absent", command |-> "absent"]
    IN  IF ctx.style = "context"
        THEN [base EXCEPT !.command = ctx.command, !.author = ctx.author,
                          !.guild = ctx.guild, !.channel = ctx.channel]
        ELSE base

\* ------------------------------------------------------------------- store
\* Record with the append lost: the list is started anew on every call.
RecordOverwrite(ts, packet) ==
    errors' = [s \in DOMAIN errors \cup {ts} |-> IF s = ts THEN <<packet>> ELSE errors[s]]

\* current = self.errors.get(ts); append to the list, or start one
Record(ts, packet) ==
    errors' = IF ts \in DOMAIN errors /\ errors[ts] # <<>>
              THEN [errors EXCEPT ![ts] = Append(errors[ts], packet)]
              ELSE [s \in DOMAIN errors \cup {ts} |-> IF s = ts THEN <<packet>> ELSE errors[s]]

\* -------------------------------------------------------------------- lock
\* LockFree without the test of the lock: every caller walks in.
LockFreeAlways == TRUE

\* LockFree without the look at the queue: a new caller takes a free lock
\* ahead of the tasks that wait for it.
LockFreeBarging == ~locked

\* asyncio.Lock.acquire returns at once when the lock is not held and no
\* task waits for it; otherwise the caller queues behind the waiters.
LockFree == ~locked /\ waiters = <<>>

\* asyncio.Lock.release, run by the exit of `async with`: the lock is
\* marked free and the first waiter's future is resolved.
LockRelease == locked' = FALSE

\* Woken without the look at the lock: the first waiter runs on while the
\* lock is held.
WokenWhileHeld(t) == waiters # <<>> /\ Head(waiters) = t

\* The waiter whose future release() has resolved: the first in the queue.
Woken(t) == ~locked /\ waiters # <<>> /\ Head(waiters) = t

\* ----------------------------------------------------------------- delivery
\* self._most_recent = utcnow(); await self.release_error(ts, packet):
\* the transmission starts, and the task is suspended in the network call.
ReleaseError(t, ts, packet, how) ==
    /\ most_recent' = <<now>>
    /\ sent' = Append(sent, [task |-> t, sig |-> ts, pkt |-> packet, at |-> now, how |-> how])
    /\ pc' = [pc EXCEPT ![t] = "send"]
    /\ UNCHANGED wake

\* await asyncio.sleep(delay): a delay of zero or less yields once
Sleep(t, delay) ==
    /\ pc' = [pc EXCEPT ![t] = "sleep"]
    /\ wake' = [wake EXCEPT ![t] = now + Max(delay, 0)]
    /\ UNCHANGED <<most_recent, sent>>

\* Decide with the unset cursor treated like a recent send: the first call
\* sleeps before it transmits.
DecideFirstWaits(t, ts, packet) ==
    IF most_recent = <<>>
    THEN Sleep(t, Cooldown)
    ELSE LET time_between == packet.time - most_recent[1]
         IN  IF time_between > Cooldown
             THEN ReleaseError(t, ts, packet, "elapsed")
             ELSE Sleep(t, time_between)

\* The body of `async with self._lock:` up to its first suspension.
Decide(t, ts, packet) ==
    IF most_recent = <<>>
    THEN ReleaseError(t, ts, packet, "first")
    ELSE LET time_between == packet.time - most_recent[1]
         IN  IF time_between > Cooldown
             THEN ReleaseError(t, ts, packet, "elapsed")
             ELSE Sleep(t, time_between)

\* add_error from its first line to its first suspension: the packet is
\* built and recorded, and the lock is taken or queued for.
AddErrorBody(t, error, ctx) ==
    LET packet == BuildPacket(error, ctx)
        ts == TracebackString(error)
    IN  /\ pkt' = [pkt EXCEPT ![t] = packet]
        /\ sig' = [sig EXCEPT ![t] = ts]
        /\ Record(ts, packet)
        /\ calls' = Append(calls, [task |-> t, error |-> error, ctx |-> ctx])
        /\ IF LockFree
           THEN /\ locked' = TRUE
                /\ Decide(t, ts, packet)
                /\ UNCHANGED waiters
           ELSE /\ waiters' = Append(waiters, t)
                /\ pc' = [pc EXCEPT ![t] = "wait_lock"]
                /\ UNCHANGED <<locked, most_recent, sent, wake>>

\* The task of the next entry-point call: tasks are numbered as they start.
NextTask(t) == pc[t] = "idle" /\ \A u \in Tasks : u < t => pc[u] # "idle"

\* ------------------------------------------------------------- entry points
\* await manager.add_error(error=error, ctx=ctx), called by user code
AddError(t, error, ctx) ==
    /\ NextTask(t)
    /\ AddErrorBody(t, error, ctx)
    /\ UNCHANGED <<relvars, cogvars>>
    /\ last' = [entry |-> "add_error", task |-> t, error |-> error, ctx |-> ctx]
    /\ UNCHANGED <<faults, now, oce_settings, replies>>

\* bot_on_error: the exception in flight, if any, is reported without context
BotOnError(t, error) ==
    /\ NextTask(t)
    /\ IF error # NoError
       THEN AddErrorBody(t, error, NoCtx)
       ELSE /\ pc' = [pc EXCEPT ![t] = "returned"]
            /\ UNCHANGED <<errors, most_recent, locked, waiters, pkt, sig, wake, calls, sent>>
    /\ UNCHANGED <<relvars, cogvars>>
    /\ last' = [entry |-> "bot_on_error", task |-> t, error |-> error, ctx |-> NoCtx]
    /\ UNCHANGED <<faults, now, oce_settings, replies>>

\* ------------------------------------------------------------ task resumes
\* The first waiter resumes inside acquire(): it leaves the queue, takes the
\* lock and runs the body.
ResumeLock(t) ==
    /\ pc[t] = "wait_lock"
    /\ Woken(t)
    /\ waiters' = Tail(waiters)
    /\ locked' = TRUE
    /\ Decide(t, sig[t], pkt[t])
    /\ UNCHANGED <<relvars, cogvars>>
    /\ last' = NoInput
    /\ UNCHANGED <<faults, now, oce_settings, errors, pkt, sig, calls, replies>>

\* Wake with the lock given up before the transmission starts.
WakeOutsideLock(t) ==
    /\ pc[t] = "sleep"
    /\ now >= wake[t]
    /\ ReleaseError(t, sig[t], pkt[t], "waited")
    /\ LockRelease
    /\ UNCHANGED <<relvars, cogvars>>
    /\ last' = NoInput
    /\ UNCHANGED <<faults, now, oce_settings, errors, waiters, pkt, sig, calls, replies>>

\* Wake handing over the newest packet of the signature, not the task's own.
WakeSendsNewest(t) ==
    /\ pc[t] = "sleep"
    /\ now >= wake[t]
    /\ ReleaseError(t, sig[t], errors[sig[t]][Len(errors[sig[t]])], "waited")
    /\ UNCHANGED <<relvars, cogvars>>
    /\ last' = NoInput
    /\ UNCHANGED <<faults, now, oce_settings, errors, locked, waiters, pkt, sig, calls, replies>>

\* asyncio.sleep returns: the cursor is set and the packet handed over
Wake(t) ==
    /\ pc[t] = "sleep"
    /\ now >= wake[t]
    /\ ReleaseError(t, sig[t], pkt[t], "waited")
    /\ UNCHANGED <<relvars, cogvars>>
    /\ last' = NoInput
    /\ UNCHANGED <<faults, now, oce_settings, errors, locked, waiters, pkt, sig, calls, replies>>

\* SendOk with the lock kept: add_error returns without releasing it.
SendOkKeepsLock(t) ==
    /\ pc[t] = "send"
    /\ pc' = [pc EXCEPT ![t] = "done"]
    /\ UNCHANGED <<relvars, cogvars>>
    /\ last' = NoInput
    /\ UNCHANGED <<faults, now, oce_settings, errors, most_recent, locked, waiters, pkt,
                   sig, wake, calls, sent, replies>>

\* release_error returns: add_error leaves `async with` and returns
SendOk(t) ==
    /\ pc[t] = "send"
    /\ pc' = [pc EXCEPT ![t] = "done"]
    /\ LockRelease
    /\ UNCHANGED <<relvars, cogvars>>
    /\ last' = NoInput
    /\ UNCHANGED <<faults, now, oce_settings, errors, most_recent, waiters, pkt, sig, wake,
                   calls, sent, replies>>

\* SendFail with a rollback: the packet is taken out of the store again.
SendFailRollsBack(t) ==
    /\ pc[t] = "send"
    /\ pc' = [pc EXCEPT ![t] = "raised"]
    /\ errors' = [errors EXCEPT ![sig[t]] = SelectSeq(errors[sig[t]], LAMBDA p : p # pkt[t])]
    /\ LockRelease
    /\ faults < MaxFaults
    /\ faults' = faults + 1
    /\ UNCHANGED <<relvars, cogvars>>
    /\ last' = NoInput
    /\ UNCHANGED <<now, oce_settings, most_recent, waiters, pkt, sig, wake,
                   calls, sent, replies>>

\* The webhook call raises: nothing catches it, `async with` releases the
\* lock on the way out and the caller of add_error gets the exception.
SendFail(t) ==
    /\ pc[t] = "send"
    /\ pc' = [pc EXCEPT ![t] = "raised"]
    /\ LockRelease
    /\ faults < MaxFaults
    /\ faults' = faults + 1
    /\ UNCHANGED <<relvars, cogvars>>
    /\ last' = NoInput
    /\ UNCHANGED <<now, oce_settings, errors, most_recent, waiters, pkt, sig, wake,
                   calls, sent, replies>>

\* CancelHolder without the release: the cancelled task leaves the lock held.
CancelHolderKeepsLock(t) ==
    /\ pc[t] \in {"sleep", "send"}
    /\ pc' = [pc EXCEPT ![t] = IF pc[t] = "sleep" THEN "cancelled_sleep" ELSE "cancelled_send"]
    /\ faults < MaxFaults
    /\ faults' = faults + 1
    /\ UNCHANGED <<relvars, cogvars>>
    /\ last' = NoInput
    /\ UNCHANGED <<now, oce_settings, errors, most_recent, locked, waiters, pkt, sig, wake,
                   calls, sent, replies>>

\* The task is cancelled while it holds the lock, in the sleep or in the
\* network call: CancelledError leaves through `async with`.
CancelHolder(t) ==
    /\ pc[t] \in {"sleep", "send"}
    /\ pc' = [pc EXCEPT ![t] = IF pc[t] = "sleep" THEN "cancelled_sleep" ELSE "cancelled_send"]
    /\ LockRelease
    /\ faults < MaxFaults
    /\ faults' = faults + 1
    /\ UNCHANGED <<relvars, cogvars>>
    /\ last' = NoInput
    /\ UNCHANGED <<now, oce_settings, errors, most_recent, waiters, pkt, sig, wake,
                   calls, sent, replies>>

\* The task is cancelled while it waits for the lock: acquire() takes its
\* future out of the queue; if it had been woken, the next waiter is.
CancelWaiter(t) ==
    /\ pc[t] = "wait_lock"
    /\ pc' = [pc EXCEPT ![t] = "cancelled_wait"]
    /\ waiters' = SelectSeq(waiters, LAMBDA u : u # t)
    /\ faults < MaxFaults
    /\ faults' = faults + 1
    /\ UNCHANGED <<relvars, cogvars>>
    /\ last' = NoInput
    /\ UNCHANGED <<now, oce_settings, errors, most_recent, locked, pkt, sig, wake,
                   calls, sent, replies>>

\* A second passes.  The clock idles up to `limit` and runs on for as long
\* as a sleep is still due.
TickTo(limit) ==
    /\ \/ now < limit
       \/ \E t \in Tasks : pc[t] = "sleep" /\ wake[t] > now
    /\ now' = now + 1
    /\ UNCHANGED <<relvars, cogvars>>
    /\ last' = NoInput
    /\ UNCHANGED <<faults, oce_settings, errors, most_recent, locked, waiters, pc, pkt, sig,
                   wake, calls, sent, replies>>

Tick == TickTo(MaxTime)

\* ---------------------------------------------------- on_command_error bridge
\* Unwrap left out: the wrapper itself is reported.
UnwrapNothing(error) == error

\* error.original, the cause a CommandInvokeError wraps
Unwrap(error) == Original(error)

\* The local handlers consulted whatever the setting says.
DeferredIgnoresSetting(listener, cmd_handler, cog_handler) ==
    listener \/ cmd_handler \/ cog_handler

\* The unwrapping tested before the ignore filter.
DispositionUnwrapsFirst(error) ==
    IF IsInstance(error, {"CommandInvokeError"}) THEN "add_error"
    ELSE IF IsInstance(error, oce_settings.ignored_errors) THEN "return"
    ELSE "send"

\* The local handlers bot_command_error defers to when the setting asks:
\* a registered on_command_error listener, the command's handler, the cog's.
Deferred(listener, cmd_handler, cog_handler) ==
    /\ oce_settings.check_for_local_error_handlers
    /\ (listener \/ cmd_handler \/ cog_handler)

\* What bot_command_error does with an error, once no handler defers it
Disposition(error) ==
    IF IsInstance(error, oce_settings.ignored_errors) THEN "return"
    ELSE IF IsInstance(error, {"CommandInvokeError"}) THEN "add_error"
    ELSE "send"

\* bot_command_error(ctx, error), up to its first suspension
BotCommandError(t, ctx, error, listener, cmd_handler, cog_handler) ==
    /\ NextTask(t)
    /\ LET what == IF Deferred(listener, cmd_handler, cog_handler)
                   THEN "return" ELSE Disposition(error)
       IN  CASE what = "add_error" ->
                  /\ AddErrorBody(t, Unwrap(error), ctx)
                  /\ UNCHANGED replies
             [] what = "send" ->
                  /\ replies' = Append(replies, [task |-> t, text |-> Str(error)])
                  /\ pc' = [pc EXCEPT ![t] = "replied"]
                  /\ UNCHANGED <<errors, most_recent, locked, waiters, pkt, sig, wake,
                                 calls, sent>>
             [] OTHER ->
                  /\ pc' = [pc EXCEPT ![t] = "returned"]
                  /\ UNCHANGED <<errors, most_recent, locked, waiters, pkt, sig, wake,
                                 calls, sent, replies>>
    /\ UNCHANGED <<relvars, cogvars>>
    /\ last' = [entry |-> "bot_command_error", task |-> t, error |-> error, ctx |-> ctx,
                listener |-> listener, cmd_handler |-> cmd_handler,
                cog_handler |-> cog_handler]
    /\ UNCHANGED <<faults, now, oce_settings>>

\* ------------------------------------------------------------ _yield_code_chunks
\* The scheduler variables, which release_error and the web server leave alone
schedvars == <<now, oce_settings, errors, most_recent, locked, waiters, pc, pkt, sig,
               wake, calls, sent, replies, last, faults>>

\* A text is known by its length n; a piece of it by the positions it
\* covers, lo (included) to hi (excluded).
\* range(start, stop, step), for a step above zero
RECURSIVE Range(_, _, _)
Range(start, stop, step) ==
    IF start >= stop THEN <<>> ELSE <<start>> \o Range(start + step, stop, step)

\* iterable[i : j] of a text of length n
Slice(n, i, j) == [lo |-> Min(i, n), hi |-> Max(Min(i, n), Min(j, n))]

\* self.code_blocker.format(piece): the piece between the markers; `size`
\* is the length of the result, the "{}" of the template being replaced.
Format(piece) ==
    [lo |-> piece.lo, hi |-> piece.hi, size |-> (CodeBlockerLen - 2) + (piece.hi - piece.lo)]

\* _yield_code_chunks with the markers forgotten: pieces of chunksize.
YieldCodeChunksNoOverhead(n, chunksize) ==
    LET offsets == Range(0, n, chunksize)
    IN  [k \in 1..Len(offsets) |-> Format(Slice(n, offsets[k], offsets[k] + chunksize))]

\* list(self._yield_code_chunks(iterable, chunksize=chunksize))
YieldCodeChunks(n, chunksize) ==
    LET cbs == CodeBlockerLen - 2
        offsets == Range(0, n, chunksize - cbs)
    IN  [k \in 1..Len(offsets) |-> Format(Slice(n, offsets[k], offsets[k] + chunksize - cbs))]

\* The fragments of one text
YieldChunks ==
    /\ rel_pc = "idle"
    /\ code_chunks' = YieldCodeChunks(tb_len, ChunkSize)
    /\ rel_pc' = "chunked"
    /\ UNCHANGED <<rel_packet, tb_len, webhook_partial, fmt, warnings, entry_i, posts>>
    /\ UNCHANGED <<schedvars, cogvars>>

\* ------------------------------------------------------------- release_error
\* What the bot has in its caches: one guild, with one channel and one
\* member, and one more user.
KnownGuilds == {"g1"}
GuildChannels(guild) == {"c1"}
GuildMembers(guild) == {"u1"}
BotUsers == {"u1", "u2"}

\* The packets release_error may be given
ReleasePackets ==
    { [time |-> 0, exception |-> NoError, author |-> a, guild |-> g, channel |-> c,
       command |-> cmd, item |-> it] :
         a \in {"absent", "u1", "u2", "u9"}, g \in {"absent", "None", "g1", "g9"},
         c \in {"absent", "c1", "c9"}, cmd \in {"absent", "None", "cmd1"},
         it \in {"absent", "item1"} }

\* packet.get(key): None for a key that is missing
Get(packet, key) ==
    IF key \in DOMAIN packet /\ packet[key] # "absent" THEN packet[key] ELSE "None"

\* get_guild resolving every id it is given.
GetGuildEcho(guild_id) == guild_id

\* self.bot.get_guild(guild_id): the guild, or None
GetGuild(guild_id) == IF guild_id \in KnownGuilds THEN guild_id ELSE "None"

\* The metadata release_error builds from the packet
BuildFmt(packet) ==
    LET author_id == Get(packet, "author")
        guild == GetGuild(Get(packet, "guild"))
        channel_id == Get(packet, "channel")
        command == Get(packet, "command")
        f0 == "time" :> [form |-> "format_dt", id |-> "time"]
        f1 == IF author_id # "None"
              THEN ("author" :> [form |-> "mention", id |-> author_id]) @@ f0
              ELSE f0
        f2 == IF guild # "None"
              THEN ("guild" :> [form |-> "name (id)", id |-> guild]) @@ f1
              ELSE f1
        f3 == IF guild # "None" /\ channel_id # "None" /\ channel_id \in GuildChannels(guild)
              THEN ("channel" :> [form |-> "name - mention - (id)", id |-> channel_id]) @@ f2
              ELSE f2
        f4 == IF /\ guild # "None"
                 /\ author_id # "None"
                 /\ (author_id \in GuildMembers(guild) \/ author_id \in BotUsers)
              THEN ("author" :> [form |-> "str - mention (id)", id |-> author_id]) @@ f3
              ELSE f3
        f5 == IF "author" \notin DOMAIN f4 /\ author_id # "None"
              THEN ("author" :> [form |-> "<Unknown User> - mention (id)", id |-> author_id]) @@ f4
              ELSE f4
    IN  IF command # "None"
        THEN ("command" :> [form |-> "qualified_name", id |-> command]) @@ f5
        ELSE f5

\* The log.warning calls made while the metadata is built
Warned(packet) ==
    IF GetGuild(Get(packet, "guild")) = "None" THEN <<Get(packet, "guild")>> ELSE <<>>

\* The title of the first embed
Display(packet) ==
    IF Get(packet, "command") # "None" THEN [form |-> "in command", id |-> Get(packet, "command")]
    ELSE IF Get(packet, "item") # "None" THEN [form |-> "in Item", id |-> Get(packet, "item")]
    ELSE [form |-> "in no command", id |-> "Bot"]

\* release_error from the metadata to the first webhook.send: the text is
\* cut, the first fragment goes into the embed that carries the metadata.
\* pop(0) on an empty list raises IndexError.
FirstSend(n, packet) ==
    LET all == YieldCodeChunks(n, ChunkSize)
    IN  /\ fmt' = BuildFmt(packet)
        /\ warnings' = warnings \o Warned(packet)
        /\ IF all = <<>>
           THEN /\ rel_pc' = "raised"
                /\ code_chunks' = all
                /\ UNCHANGED posts
           ELSE /\ rel_pc' = "primary"
                /\ code_chunks' = Tail(all)
                /\ posts' = Append(posts, [embeds |-> <<Head(all)>>, title |-> Display(packet),
                                           metadata |-> fmt'])
        /\ entry_i' = 0

\* await self.release_error(traceback, packet), to its first suspension:
\* the fetch of a partial webhook, or the first send.
ReleaseErrorCall(n, packet) ==
    /\ rel_pc = "idle"
    /\ tb_len' = n
    /\ rel_packet' = packet
    /\ IF webhook_partial
       THEN /\ rel_pc' = "fetch"
            /\ UNCHANGED <<webhook_partial, fmt, warnings, code_chunks, entry_i, posts>>
       ELSE /\ FirstSend(n, packet)
            /\ UNCHANGED webhook_partial
    /\ UNCHANGED <<schedvars, cogvars>>

\* self.error_webhook.fetch() returns
FetchReturns ==
    /\ rel_pc = "fetch"
    /\ webhook_partial' = FALSE
    /\ FirstSend(tb_len, rel_packet)
    /\ UNCHANGED <<tb_len, rel_packet>>
    /\ UNCHANGED <<schedvars, cogvars>>

\* The for loop with the remainder forgotten: what is left after the last
\* full batch is not sent.
RECURSIVE ForLoopDropsRest(_, _)
ForLoopDropsRest(i, embeds) ==
    IF i = Len(code_chunks) THEN [i |-> i, embeds |-> <<>>, awaiting |-> FALSE]
    ELSE LET more == Append(embeds, code_chunks[i + 1])
         IN  IF Len(more) = EmbedsPerSend
             THEN [i |-> i + 1, embeds |-> more, awaiting |-> TRUE]
             ELSE ForLoopDropsRest(i + 1, more)

\* `for entry in code_chunks:` from entry i on, up to the next webhook.send
\* inside the loop (awaiting) or to the end of the list.
RECURSIVE ForLoop(_, _)
ForLoop(i, embeds) ==
    IF i = Len(code_chunks) THEN [i |-> i, embeds |-> embeds, awaiting |-> FALSE]
    ELSE LET more == Append(embeds, code_chunks[i + 1])
         IN  IF Len(more) = EmbedsPerSend
             THEN [i |-> i + 1, embeds |-> more, awaiting |-> TRUE]
             ELSE ForLoop(i + 1, more)

\* The loop runs on with an empty `embeds`: to the send of a full batch, to
\* the send of the remainder after the loop, or to the return.
RunLoop ==
    LET r == ForLoop(entry_i, <<>>)
    IN  /\ entry_i' = r.i
        /\ IF r.awaiting
           THEN /\ posts' = Append(posts, [embeds |-> r.embeds, title |-> Display(NoPacket),
                                           metadata |-> NoFmt])
                /\ rel_pc' = "batch"
           ELSE IF r.embeds # <<>>
           THEN /\ posts' = Append(posts, [embeds |-> r.embeds, title |-> Display(NoPacket),
                                           metadata |-> NoFmt])
                /\ rel_pc' = "final"
           ELSE /\ rel_pc' = "done"
                /\ UNCHANGED posts
        /\ UNCHANGED <<rel_packet, tb_len, webhook_partial, fmt, warnings, code_chunks>>
        /\ UNCHANGED <<schedvars, cogvars>>

\* webhook.send(embed=embed) returns
PrimaryReturns == rel_pc = "primary" /\ RunLoop

\* webhook.send(embeds=embeds) inside the loop returns
BatchReturns == rel_pc = "batch" /\ RunLoop

\* webhook.send(embeds=embeds) after the loop returns: release_error returns
FinalReturns ==
    /\ rel_pc = "final"
    /\ rel_pc' = "done"
    /\ UNCHANGED <<rel_packet, tb_len, webhook_partial, fmt, warnings, code_chunks,
                   entry_i, posts>>
    /\ UNCHANGED <<schedvars, cogvars>>

\* -------------------------------------------------------------- WebserverCog
\* The awaits of start() and close() are taken in one step: nothing else
\* touches the web server of a cog.
Hosts == {"localhost", "0.0.0.0"}
Ports == {<<8079 + i>> : i \in 1..NumPorts}

\* class C(WebserverCog, auto_start=..., host=..., port=...): __init_subclass__
\* raises RuntimeError, or keeps host and port as class attributes.  The
\* class keeps no trace of auto_start; the model remembers the keyword.
DefineSubclass(auto_start, host, port) ==
    /\ cog_class.status = "undefined"
    /\ cog_class' = IF auto_start /\ port = Missing
                    THEN [NoClass EXCEPT !.status = "rejected"]
                    ELSE [status |-> "defined", auto_start |-> auto_start, host |-> host,
                          port |-> port]
    /\ UNCHANGED <<cog_pc, runner_setup, webserver, starts>>
    /\ UNCHANGED <<schedvars, relvars>>

\* BaseWebserver.start(host=host, port=port): the runner is set up, a
\* TCPSite is made and started; without a port to bind, its start() raises.
StartBody(by, host, port) ==
    /\ runner_setup' = TRUE
    /\ webserver' = [made |-> TRUE, host |-> host, port |-> port, listening |-> port # Missing]
    /\ starts' = Append(starts, [by |-> by, host |-> host, port |-> port, ok |-> port # Missing])

\* BaseWebserver.close(): the runner is cleaned up, and with it the site
CloseBody ==
    /\ runner_setup' = FALSE
    /\ webserver' = [webserver EXCEPT !.listening = FALSE]
    /\ UNCHANGED starts

\* await bot.add_cog(C()): cog_load starts the server with the class's host
\* and port; what start() raises is dropped by the return in `finally`.
CogLoad ==
    /\ cog_class.status = "defined"
    /\ cog_pc = "constructed"
    /\ StartBody("cog_load", cog_class.host, cog_class.port)
    /\ cog_pc' = "loaded"
    /\ UNCHANGED cog_class
    /\ UNCHANGED <<schedvars, relvars>>

\* await cog.start(host=host, port=port), called by user code on a loaded
\* cog whose server is not running
Start(host, port) ==
    /\ cog_pc = "loaded"
    /\ ~webserver.listening
    /\ Len(starts) < MaxStarts
    /\ StartBody("user", host, port)
    /\ UNCHANGED <<cog_class, cog_pc>>
    /\ UNCHANGED <<schedvars, relvars>>

\* await cog.close(), called by user code
Close ==
    /\ cog_pc = "loaded"
    /\ webserver.listening
    /\ CloseBody
    /\ UNCHANGED <<cog_class, cog_pc>>
    /\ UNCHANGED <<schedvars, relvars>>

\* await bot.remove_cog(...): cog_unload closes the server
CogUnload ==
    /\ cog_pc = "loaded"
    /\ CloseBody
    /\ cog_pc' = "unloaded"
    /\ UNCHANGED cog_class
    /\ UNCHANGED <<schedvars, relvars>>

\* ------------------------------------------------------------ specifications
\* The scheduler: concurrent add_error calls, transport failures and
\* cancellations, under the default settings.
Next ==
    \/ \E t \in Tasks, error \in SchedErrors, ctx \in SchedContexts(now) : AddError(t, error, ctx)
    \/ \E t \in Tasks : ResumeLock(t)
    \/ \E t \in Tasks : Wake(t)
    \/ \E t \in Tasks : SendOk(t)
    \/ \E t \in Tasks : SendFail(t)
    \/ \E t \in Tasks : CancelHolder(t)
    \/ \E t \in Tasks : CancelWaiter(t)
    \/ Tick

Spec == Init /\ [][Next]_vars

\* The scheduler when the transport never fails or hangs, no task is
\* cancelled and the event loop runs every task that can run.
FairNext ==
    \/ \E t \in Tasks, error \in SchedErrors, ctx \in SchedContexts(now) : AddError(t, error, ctx)
    \/ \E t \in Tasks : ResumeLock(t)
    \/ \E t \in Tasks : Wake(t)
    \/ \E t \in Tasks : SendOk(t)
    \/ Tick

FairSpec ==
    /\ Init
    /\ [][FairNext]_vars
    /\ WF_vars(Tick)
    /\ \A t \in Tasks : WF_vars(ResumeLock(t)) /\ WF_vars(Wake(t)) /\ WF_vars(SendOk(t))

\* The entry points with every kind of context, error and setting.
BridgeInit ==
    /\ now = 0
    /\ oce_settings \in SettingsChoices
    /\ errors = [s \in {} |-> <<>>]
    /\ most_recent = <<>>
    /\ locked = FALSE
    /\ waiters = <<>>
    /\ pc = [t \in Tasks |-> "idle"]
    /\ pkt = [t \in Tasks |-> NoPacket]
    /\ sig = [t \in Tasks |-> NoSig]
    /\ wake = [t \in Tasks |-> 0]
    /\ calls = <<>>
    /\ sent = <<>>
    /\ replies = <<>>
    /\ last = NoInput
    /\ faults = 0
    /\ RelIdle
    /\ CogIdle

BridgeTick == TickTo(BridgeMaxTime)

BridgeNext ==
    \/ \E t \in 1..BridgeCalls, error \in BaseErrors, ctx \in Contexts(now) : AddError(t, error, ctx)
    \/ \E t \in 1..BridgeCalls, error \in BaseErrors \cup {NoError} : BotOnError(t, error)
    \/ \E t \in 1..BridgeCalls, ctx \in CommandContexts(now), error \in CommandErrors,
          listener \in BOOLEAN, cmd_handler \in BOOLEAN, cog_handler \in BOOLEAN :
             BotCommandError(t, ctx, error, listener, cmd_handler, cog_handler)
    \/ \E t \in Tasks : ResumeLock(t)
    \/ \E t \in Tasks : Wake(t)
    \/ \E t \in Tasks : SendOk(t)
    \/ BridgeTick

BridgeSpec == BridgeInit /\ [][BridgeNext]_vars

\* _yield_code_chunks on its own, for a text of any length up to MaxText.
ChunkInit ==
    /\ SchedInit
    /\ CogIdle
    /\ rel_pc = "idle"
    /\ rel_packet = NoPacket
    /\ tb_len \in 0..MaxText
    /\ webhook_partial = TRUE
    /\ fmt = NoFmt
    /\ warnings = <<>>
    /\ code_chunks = <<>>
    /\ entry_i = 0
    /\ posts = <<>>

ChunkNext == YieldChunks

ChunkSpec == ChunkInit /\ [][ChunkNext]_vars

\* The lengths of the tracebacks released
TextLens == {k * TextUnit : k \in 0..MaxUnits}

\* One release_error call, for any packet, with a transport that works; the
\* webhook is partial, or was fetched by an earlier call.
ReleaseInit ==
    /\ SchedInit
    /\ CogIdle
    /\ rel_pc = "idle"
    /\ rel_packet = NoPacket
    /\ tb_len = 0
    /\ webhook_partial \in BOOLEAN
    /\ fmt = NoFmt
    /\ warnings = <<>>
    /\ code_chunks = <<>>
    /\ entry_i = 0
    /\ posts = <<>>

ReleaseNext ==
    \/ /\ rel_pc = "idle"
       /\ \E n \in TextLens, packet \in ReleasePackets : ReleaseErrorCall(n, packet)
    \/ FetchReturns
    \/ PrimaryReturns
    \/ BatchReturns
    \/ FinalReturns

ReleaseSpec == ReleaseInit /\ [][ReleaseNext]_vars

\* One WebserverCog subclass, declared with any class keywords, and one
\* instance of it added to the bot and removed again.
CogInit == SchedInit /\ RelIdle /\ CogIdle

CogNext ==
    \/ \E auto_start \in BOOLEAN, host \in Hosts, port \in Ports \cup {Missing} :
          DefineSubclass(auto_start, host, port)
    \/ CogLoad
    \/ \E host \in Hosts, port \in Ports : Start(host, port)
    \/ Close
    \/ CogUnload

CogSpec == CogInit /\ [][CogNext]_vars

\* ------------------------------------------------------------------- claims
InCritical(t) == pc[t] \in {"sleep", "send"}

SentTasks == {sent[i].task : i \in 1..Len(sent)}

Deliveries(t) == Cardinality({i \in 1..Len(sent) : sent[i].task = t})

PacketRecorded(t) ==
    /\ sig[t] \in DOMAIN errors
    /\ \E k \in 1..Len(errors[sig[t]]) : errors[sig[t]][k] = pkt[t]

\* C1: no two transmissions to the sink (release_error calls) start less
\* than the cooldown apart, whatever the calls and their timestamps.
C1_TransmissionsCooldownApart ==
    \A i, j \in 1..Len(sent) : i < j => sent[j].at - sent[i].at >= Cooldown

\* C3: at most one task is inside the critical section of add_error (the
\* cooldown sleep or the transmission); it holds the lock, and every other
\* call that has reached the lock is queued and has transmitted nothing.
C3_MutualExclusion ==
    /\ Cardinality({t \in Tasks : InCritical(t)}) <= 1
    /\ \A t \in Tasks : InCritical(t) => locked
    /\ \A u \in Tasks :
          pc[u] = "wait_lock" =>
             /\ \E k \in 1..Len(waiters) : waiters[k] = u
             /\ u \notin SentTasks

C3_Witness ==
    \E t, u \in Tasks :
       /\ pc[t] = "sleep" /\ wake[t] > now
       /\ pc[u] = "wait_lock"
       /\ \E v \in Tasks : pc[v] = "done"

\* C7: a packet that has to wait (a send was made before and the packet's
\* time is within the cooldown of it) is transmitted exactly one cooldown
\* after the previous transmission.
C7_WaitedExactlyCooldown ==
    \A i \in 2..Len(sent) :
       sent[i].how = "waited" => sent[i].at = sent[i - 1].at + Cooldown

\* C8: the add_error call that finds _most_recent unset sets it and starts
\* its transmission in the same step, without a cooldown wait, whatever the
\* time of its packet.
C8_FirstCallImmediate ==
    [][ (most_recent = <<>> /\ Len(calls') = Len(calls) + 1) =>
           LET c == calls'[Len(calls')]
           IN  /\ most_recent' = <<now>>
               /\ pc'[c.task] = "send"
               /\ sent' = <<[task |-> c.task, sig |-> sig'[c.task], pkt |-> pkt'[c.task],
                             at |-> now, how |-> "first"]>> ]_vars

C8_Witness ==
    /\ Len(sent) >= 1
    /\ sent[1].how = "first"
    /\ sent[1].pkt.time < sent[1].at
    /\ most_recent = <<sent[1].at>>

\* The lock is never left with a finished task: a held lock has a live
\* holder, and every queued task is still waiting for it.
LockLive ==
    /\ locked => \E t \in Tasks : InCritical(t)
    /\ \A k \in 1..Len(waiters) : pc[waiters[k]] = "wait_lock"

\* C4: a task cancelled in the cooldown sleep releases the lock: the lock
\* is free in the resulting state with the queue untouched, so that the
\* first waiter is the one woken, and the lock is never held by a task
\* that has left add_error.
C4_CancelInSleepReleasesLock ==
    /\ []LockLive
    /\ [][ \A t \in Tasks :
              (pc[t] = "sleep" /\ pc'[t] = "cancelled_sleep") =>
                 /\ ~locked'
                 /\ waiters' = waiters
                 /\ (waiters # <<>> => Woken(Head(waiters))') ]_vars

C4_Witness ==
    \E t, u \in Tasks :
       /\ pc[t] = "cancelled_sleep"
       /\ u > t
       /\ pc[u] = "done"
       /\ Deliveries(u) = 1

\* C5: a transport failure in release_error reaches the caller of add_error:
\* the packet stays in the store under its signature, the lock is released,
\* and the packet is not transmitted again.
C5_TransportFailurePropagates ==
    /\ [](\A t \in Tasks : pc[t] = "raised" => PacketRecorded(t) /\ Deliveries(t) = 1)
    /\ [][ \A t \in Tasks :
              /\ (pc[t] = "send" /\ pc'[t] = "raised") =>
                    (errors' = errors /\ ~locked' /\ sent' = sent)
              /\ pc[t] = "raised" => pc'[t] = "raised" ]_vars

C5_Witness ==
    \E t, u \in Tasks :
       /\ pc[t] = "raised"
       /\ PacketRecorded(t)
       /\ u > t
       /\ pc[u] = "done"

\* The add_error calls made with signature s, in the order they were made
CallsWith(s) == SelectSeq(calls, LAMBDA c : TracebackString(c.error) = s)

DeliveredOnce(t) ==
    /\ Deliveries(t) = 1
    /\ \E i \in 1..Len(sent) :
          sent[i].task = t /\ sent[i].pkt = pkt[t] /\ sent[i].sig = sig[t]

\* C2: when the transport never fails, no task is cancelled and the event
\* loop is fair, every add_error call ends with its packet handed to
\* release_error exactly once: no packet is transmitted twice, none is
\* dropped, and there are as many transmissions as calls.
C2_EveryCallDeliveredOnce ==
    /\ [](\A t \in Tasks : Deliveries(t) <= 1)
    /\ [](Len(sent) <= Len(calls))
    /\ \A t \in Tasks : (pc[t] # "idle") ~> (pc[t] = "done" /\ DeliveredOnce(t))
    /\ <>[](Len(sent) = Len(calls))

C2_Witness ==
    /\ \A t \in Tasks : pc[t] = "done" /\ DeliveredOnce(t)
    /\ Len(sent) = NumTasks
    /\ \E i \in 1..Len(sent) : sent[i].how = "waited" /\ sent[i].at > sent[i].pkt.time

\* C9: a call with an interaction carries, in its packet, the interaction's
\* user as author, its guild (or None) and channel as scope and its command
\* as origin, as a call with a commands.Context of the same values does.
C9_InteractionPacketCarriesContext ==
    \A i \in 1..Len(calls) :
       calls[i].ctx.style = "interaction" =>
          LET p == pkt[calls[i].task]
              c == calls[i].ctx
          IN  /\ p.author = c.author
              /\ p.guild = c.guild
              /\ p.channel = c.channel
              /\ p.command = c.command

\* C10: bot_command_error, given a CommandInvokeError that is not ignored
\* and that no local handler defers, makes exactly one add_error call, for
\* the wrapped cause and the same context, and sends nothing to the context.
C10_InvokeErrorUnwrapped ==
    [][ ( /\ last'.entry = "bot_command_error"
          /\ IsInstance(last'.error, {"CommandInvokeError"})
          /\ ~IsInstance(last'.error, oce_settings.ignored_errors)
          /\ ~( /\ oce_settings.check_for_local_error_handlers
                /\ (last'.listener \/ last'.cmd_handler \/ last'.cog_handler) ) ) =>
           /\ Len(calls') = Len(calls) + 1
           /\ LET c == calls'[Len(calls')]
              IN  /\ c.task = last'.task
                  /\ c.ctx = last'.ctx
                  /\ c.error \in BaseErrors
                  /\ c.error.id = last'.error.original
                  /\ pkt'[c.task].exception = c.error
                  /\ sig'[c.task] = TracebackString(c.error)
                  /\ sig'[c.task] \in DOMAIN errors'
                  /\ LET list == errors'[sig'[c.task]]
                     IN  list[Len(list)] = pkt'[c.task]
           /\ replies' = replies ]_vars

C10_Witness ==
    /\ last.entry = "bot_command_error"
    /\ last.error.cls = "CommandInvokeError"
    /\ last.cmd_handler
    /\ ~oce_settings.check_for_local_error_handlers
    /\ Len(calls) = 2
    /\ calls[2].task = last.task
    /\ calls[2].error.cls = "KeyError"
    /\ pc[last.task] = "wait_lock"

\* C11: bot_command_error, given an error of an ignored kind, returns at
\* once: no add_error call, no transmission, the store and _most_recent
\* untouched, nothing sent to the context.
C11_IgnoredErrorDropped ==
    [][ ( /\ last'.entry = "bot_command_error"
          /\ IsInstance(last'.error, oce_settings.ignored_errors) ) =>
           /\ calls' = calls
           /\ sent' = sent
           /\ errors' = errors
           /\ most_recent' = most_recent
           /\ replies' = replies
           /\ locked' = locked
           /\ waiters' = waiters
           /\ pc'[last'.task] = "returned" ]_vars

C11_Witness ==
    /\ last.entry = "bot_command_error"
    /\ last.error.cls = "NotOwner"
    /\ oce_settings.ignored_errors = DefaultIgnored
    /\ ~oce_settings.check_for_local_error_handlers
    /\ pc[last.task] = "returned"
    /\ Len(calls) = 1
    /\ most_recent # <<>>
    /\ replies = <<>>

\* C12: with check_for_local_error_handlers set, a bot_command_error call
\* for which a global listener, a command handler or a cog handler exists
\* escalates nothing and replies nothing, whatever the error; otherwise
\* (setting off, or no handler) the outcome is fixed by the error alone:
\* nothing for an ignored kind, one add_error call for a CommandInvokeError,
\* one reply with the error's text for the rest.
C12_LocalHandlersDefer ==
    [][ last'.entry = "bot_command_error" =>
           LET e == last'.error
               handled == last'.listener \/ last'.cmd_handler \/ last'.cog_handler
               nothing == /\ calls' = calls
                          /\ replies' = replies
                          /\ sent' = sent
                          /\ errors' = errors
                          /\ pc'[last'.task] = "returned"
           IN  IF oce_settings.check_for_local_error_handlers /\ handled THEN nothing
               ELSE IF IsInstance(e, oce_settings.ignored_errors) THEN nothing
               ELSE IF IsInstance(e, {"CommandInvokeError"})
                    THEN /\ Len(calls') = Len(calls) + 1
                         /\ calls'[Len(calls')].task = last'.task
                         /\ replies' = replies
               ELSE /\ replies' = Append(replies, [task |-> last'.task, text |-> Str(e)])
                    /\ calls' = calls
                    /\ sent' = sent
                    /\ errors' = errors ]_vars

C12_Witness ==
    /\ last.entry = "bot_command_error"
    /\ oce_settings.check_for_local_error_handlers
    /\ last.cog_handler /\ ~last.listener /\ ~last.cmd_handler
    /\ last.error.cls = "CommandInvokeError"
    /\ ~IsInstance(last.error, oce_settings.ignored_errors)
    /\ pc[last.task] = "returned"
    /\ Len(calls) = 1
    /\ replies = <<>>

\* The task decides inside `async with` in this step: it reads _most_recent
Decides(t) == pc[t] \in {"idle", "wait_lock"} /\ pc'[t] \in {"sleep", "send"}

\* The task sets _most_recent and starts its transmission in this step
Transmits(t) == pc[t] # "send" /\ pc'[t] = "send"

\* C17: _most_recent is read and written only by the task that holds the
\* lock: a step that decides or transmits ends with the lock held and with
\* no other task inside the critical section before or after it, and
\* _most_recent changes only in a transmitting step; a call that only
\* records and queues, and the cancellation of a waiter, leave it unchanged.
C17_CursorOnlyUnderLock ==
    [][ /\ \A t \in Tasks :
              (Decides(t) \/ Transmits(t)) =>
                 /\ locked'
                 /\ \A u \in Tasks \ {t} : ~InCritical(u) /\ ~InCritical(u)'
                 /\ \A k \in 1..Len(waiters') : waiters'[k] # t
        /\ most_recent' # most_recent =>
              \E t \in Tasks : Transmits(t) /\ most_recent' = <<now>>
        /\ \A t \in Tasks :
              (pc'[t] # pc[t] /\ pc'[t] \in {"wait_lock", "cancelled_wait"}) =>
                 most_recent' = most_recent ]_vars

C17_Witness ==
    \E t, u, v \in Tasks :
       /\ pc[t] = "send"
       /\ sent[Len(sent)] = [task |-> t, sig |-> sig[t], pkt |-> pkt[t], at |-> now,
                             how |-> "waited"]
       /\ most_recent = <<now>>
       /\ now > 0
       /\ pc[u] = "cancelled_wait"
       /\ pc[v] = "done"

\* The position of the task's add_error call among the calls made
CallIndex(t) == CHOOSE i \in 1..Len(calls) : calls[i].task = t

\* C18: while a transmission has not completed, however much time has
\* passed, its task holds the lock and its send is the last one made: every
\* call made after that task's has recorded its packet and is queued for
\* the lock (or was cancelled there) and has transmitted nothing.
C18_HungTransmissionBlocksAll ==
    \A t \in Tasks :
       pc[t] = "send" =>
          /\ locked
          /\ Len(sent) >= 1
          /\ sent[Len(sent)].task = t
          /\ most_recent = <<sent[Len(sent)].at>>
          /\ \A i \in 1..Len(calls) :
                i > CallIndex(t) =>
                   LET u == calls[i].task
                   IN  /\ pc[u] \in {"wait_lock", "cancelled_wait"}
                       /\ PacketRecorded(u)
                       /\ u \notin SentTasks
                       /\ pc[u] = "wait_lock" => \E k \in 1..Len(waiters) : waiters[k] = u

C18_Witness ==
    \E t, u \in Tasks :
       /\ pc[t] = "send"
       /\ now > sent[Len(sent)].at + Cooldown
       /\ pc[u] = "wait_lock"
       /\ CallIndex(u) > CallIndex(t)
       /\ PacketRecorded(u)
       /\ \E v \in Tasks : pc[v] = "wait_lock" /\ v # u

\* The position of the task's call among the calls made with its signature
CallIndexWith(t) ==
    Cardinality({i \in 1..CallIndex(t) : TracebackString(calls[i].error) = sig[t]})

\* C19: transmissions are made in the order of the add_error calls: the
\* tasks of sent are in call order, the packets sent for one signature are
\* entries of its list in errors in list order, and no call that waits for
\* the lock or sleeps was made before a call that has transmitted.
C19_FirstComeFirstServed ==
    /\ \A i, j \in 1..Len(sent) :
          i < j =>
             /\ CallIndex(sent[i].task) < CallIndex(sent[j].task)
             /\ sent[i].sig = sent[j].sig =>
                   CallIndexWith(sent[i].task) < CallIndexWith(sent[j].task)
    /\ \A i \in 1..Len(sent) :
          /\ sent[i].sig \in DOMAIN errors
          /\ CallIndexWith(sent[i].task) <= Len(errors[sent[i].sig])
          /\ errors[sent[i].sig][CallIndexWith(sent[i].task)] = sent[i].pkt
    /\ \A i \in 1..Len(sent), u \in Tasks :
          pc[u] \in {"wait_lock", "sleep"} => CallIndex(u) > CallIndex(sent[i].task)

C19_Witness ==
    /\ Len(sent) = 2
    /\ sent[1].sig = sent[2].sig
    /\ sent[1].pkt # sent[2].pkt
    /\ sent[2].how = "waited"
    /\ pc[sent[2].task] = "send"
    /\ \E u \in Tasks : pc[u] = "wait_lock" /\ sig[u] = sent[1].sig

\* C20: every call that has reached the lock, whether it waits, sleeps,
\* transmits or has finished, has its packet in errors under its own
\* signature and under no other; the packet and signature handed to
\* release_error are the ones that call built and recorded.
C20_RecordedBeforeDecision ==
    /\ \A t \in Tasks :
          pc[t] # "idle" =>
             /\ sig[t] = TracebackString(pkt[t].exception)
             /\ PacketRecorded(t)
             /\ CallIndexWith(t) <= Len(errors[sig[t]])
             /\ errors[sig[t]][CallIndexWith(t)] = pkt[t]
             /\ \A s \in DOMAIN errors :
                   (\E k \in 1..Len(errors[s]) : errors[s][k] = pkt[t]) => s = sig[t]
    /\ \A i \in 1..Len(sent) :
          /\ pc[sent[i].task] # "idle"
          /\ sent[i].pkt = pkt[sent[i].task]
          /\ sent[i].sig = sig[sent[i].task]

C20_Witness ==
    \E t, u, v \in Tasks :
       /\ pc[t] = "done"
       /\ pc[u] = "sleep"
       /\ pc[v] = "wait_lock"
       /\ sig[u] = sig[v]
       /\ pkt[u] # pkt[v]
       /\ sig[t] # sig[u]

\* ceil(a / b) for b above zero
Ceil(a, b) == (a + b - 1) \div b

\* C13: for a text of N characters and the default chunk size of 2000,
\* _yield_code_chunks gives ceil(N / (2000 - 9)) fragments, 9 being the
\* length of the markers; the pieces between the markers, put end to end,
\* are the text; a fragment with its markers is at most 2000 long.
C13_ChunksCoverText ==
    rel_pc = "chunked" =>
       LET k == Len(code_chunks)
       IN  /\ k = Ceil(tb_len, 2000 - 9)
           /\ k = 0 => tb_len = 0
           /\ k > 0 => code_chunks[1].lo = 0 /\ code_chunks[k].hi = tb_len
           /\ \A i \in 1..k :
                 /\ code_chunks[i].lo < code_chunks[i].hi
                 /\ i < k => code_chunks[i].hi = code_chunks[i + 1].lo
                 /\ code_chunks[i].size = 9 + (code_chunks[i].hi - code_chunks[i].lo)
                 /\ code_chunks[i].size <= 2000

C13_Witness ==
    /\ rel_pc = "chunked"
    /\ Len(code_chunks) = 3
    /\ code_chunks[2].size = 2000
    /\ code_chunks[3].size = 9 + 1

\* The embeds of the webhook.send calls made so far, in order
RECURSIVE Posted(_)
Posted(i) == IF i = 0 THEN <<>> ELSE Posted(i - 1) \o posts[i].embeds

\* C14: release_error sends the first of the k >= 1 fragments in the first
\* message, with the metadata, and the other k - 1 in order in messages of
\* at most 10 embeds: a message per full batch of 10 and one for what is
\* left, none of them empty, 1 + ceil((k - 1) / 10) messages in all, every
\* fragment in exactly one of them.
C14_FragmentsBatched ==
    LET all == YieldCodeChunks(tb_len, ChunkSize)
        k == Len(all)
    IN  /\ \A i \in 1..Len(posts) :
              /\ Len(posts[i].embeds) >= 1
              /\ Len(posts[i].embeds) <= 10
              /\ (1 < i /\ i < Len(posts)) => Len(posts[i].embeds) = 10
        /\ Len(posts) >= 1 =>
              /\ posts[1].embeds = <<all[1]>>
              /\ posts[1].metadata = fmt
              /\ Posted(Len(posts)) = SubSeq(all, 1, Len(Posted(Len(posts))))
        /\ rel_pc = "done" =>
              /\ k >= 1
              /\ Len(posts) = 1 + Ceil(k - 1, 10)
              /\ Posted(Len(posts)) = all

C14_Witness ==
    /\ rel_pc = "done"
    /\ Len(posts) = 4
    /\ Len(posts[2].embeds) = 10
    /\ Len(posts[3].embeds) = 10
    /\ Len(posts[4].embeds) = 1

\* C15: when the packet has no guild id, or one the bot cannot resolve,
\* release_error logs one warning, builds the metadata without a guild
\* entry and goes on to send: nothing raises while the metadata is built.
C15_UnknownGuildStillReleased ==
    (rel_pc \notin {"idle", "fetch"} /\ Get(rel_packet, "guild") \notin KnownGuilds) =>
       /\ warnings = <<Get(rel_packet, "guild")>>
       /\ "guild" \notin DOMAIN fmt
       /\ "time" \in DOMAIN fmt
       /\ Get(rel_packet, "author") # "None" => "author" \in DOMAIN fmt
       /\ tb_len > 0 =>
             /\ rel_pc # "raised"
             /\ Len(posts) >= 1
             /\ posts[1].metadata = fmt

C15_Witness ==
    /\ rel_pc = "done"
    /\ rel_packet.guild = "g9"
    /\ rel_packet.author = "u1"
    /\ rel_packet.channel = "c1"
    /\ warnings = <<"g9">>
    /\ Len(posts) = 2

\* C16: a subclass declared with auto_start=True has a port, and its server
\* is started with the class's host and port when the cog is loaded; the
\* server of a subclass declared with auto_start=False is started by no
\* cog load, only by an explicit start(port=...); a cog that is unloaded
\* has its server stopped.
C16_AutoStartHonoured ==
    /\ cog_class.status = "defined" =>
          /\ cog_class.auto_start => cog_class.port # Missing
          /\ ~cog_class.auto_start =>
                \A i \in 1..Len(starts) : starts[i].by = "cog_load" => ~starts[i].ok
          /\ (cog_class.auto_start /\ cog_pc # "constructed") =>
                /\ Len(starts) >= 1
                /\ starts[1] = [by |-> "cog_load", host |-> cog_class.host,
                                port |-> cog_class.port, ok |-> TRUE]
    /\ cog_pc = "unloaded" => ~webserver.listening

====
